---- MODULE Spec2Model ----
(***************************************************************************)
(* URL shortener: the three applications of the repository                 *)
(*   Url_Shortner.py       Flask, no accounts                              *)
(*   autentication.py      Flask + Flask-Login accounts                    *)
(*   fastapi_shortener.py  FastAPI, cookie accounts, startup DB check      *)
(* over the MongoDB collections "links" and "users".  One action per store *)
(* round trip of a request handler; a Flask handler runs in its own thread *)
(* and interleaves with the others between store calls, a FastAPI handler  *)
(* is an "async def" whose body makes blocking calls and so runs alone.    *)
(***************************************************************************)
EXTENDS Integers, Sequences, FiniteSets, TLC

\* ------------------------------------------------------------------ bounds
\* Documents the collections hold at most, and the value at which the count of
\* generate_code() calls of a request stops growing.
MaxLinks == 2
MaxUsers == 2
MaxAttempts == 3

\* Browsers, each with one request in flight at most; the codes generate_code
\* draws from (two, so that the code space can be exhausted); the submitted
\* URLs (the empty one included); the usernames and passwords of the forms;
\* the salts of generate_password_hash.
Clients == {"c1", "c2"}
Codes == {"AAAAA", "BBBBB"}
Urls == {"", "http://x", "http://y"}
Usernames == {"alice"}
Passwords == {"p1", "p2"}
Salts == {"s1"}

\* ------------------------------------------------------------- vocabulary
Variants == {"Url_Shortner", "autentication", "fastapi_shortener"}
None == [null |-> TRUE]
NoCookie == ""
NoCode == ""

\* variant          the application that runs
\* is_db_connected  fastapi_shortener.py: the startup connection succeeded
\* links, users     the collections, in insertion order
\* cookie           per client: the username of its session cookie, or NoCookie
\* logged_in        per client: the username and password of the login that gave
\*                  it the session it presents, or None (history)
\* pc, req          per client: where its request stands, and the handler's locals
\* last             the response just given (NoResponse once received)
\* produced         the codes shorten has answered with so far
VARIABLES variant, is_db_connected, links, users, cookie, logged_in, pc, req, last,
          produced

vars ==
    <<variant, is_db_connected, links, users, cookie, logged_in, pc, req, last, produced>>

\* ---------------------------------------------------------- store helpers
Min(S) == CHOOSE x \in S : \A y \in S : x <= y

\* pymongo Collection.find_one({key: value}): the first matching document in
\* insertion order, or None.
find_one(coll, key, value) ==
    LET I == {i \in DOMAIN coll : coll[i][key] = value}
    IN IF I = {} THEN None ELSE coll[Min(I)]

\* Mutant of insert_one: replace_one({'code': ...}, doc, upsert=True), which
\* overwrites the stored document that has the code.
insert_one_Upsert(coll, doc) ==
    IF "code" \in DOMAIN doc /\ \E i \in DOMAIN coll : coll[i].code = doc.code
    THEN [i \in DOMAIN coll |-> IF coll[i].code = doc.code THEN doc ELSE coll[i]]
    ELSE Append(coll, doc)

\* pymongo Collection.insert_one: appends; the links collection has no index.
insert_one(coll, doc) == Append(coll, doc)

\* werkzeug generate_password_hash / check_password_hash: a salted digest.
generate_password_hash(password, salt) ==
    [method |-> "pbkdf2", salt |-> salt, digest |-> <<salt, password>>]

check_password_hash(pwhash, password) ==
    pwhash.digest = <<pwhash.salt, password>>

\* ------------------------------------------------------------- responses
\* What a handler answers: the request (op, arg), the HTTP status, the Location
\* of a redirect, the flashed or body message and the short code in it; store
\* tells whether a store call of the request failed, draws how many times the
\* request called generate_code().
Response(op, arg, status, location, flash, code, store) ==
    [op |-> op, arg |-> arg, status |-> status, location |-> location,
     flash |-> flash, code |-> code, store |-> store, draws |-> 0]

NoResponse == Response("none", "", 0, "", "", NoCode, "ok")

StoreTag(dbok) == IF dbok THEN "ok" ELSE "failed"

\* An exception that leaves the handler: the framework answers 500.
ServerError(op, arg) ==
    Response(op, arg, 500, "", "", NoCode, "failed")

\* check_db_connection: 503 page when the startup connection failed.
DbErrorPage(op, arg) ==
    Response(op, arg, 503, "", "", NoCode, "failed")

IdleReq ==
    [long_url |-> "", code |-> NoCode, user |-> NoCookie, attempts |-> 0,
     username |-> "", password |-> ""]

\* ---------------------------------------------------------- access gates
\* autentication.py load_user: the account of a session's user id.
load_user(user_id) ==
    LET user_data == find_one(users, "username", user_id)
    IN IF user_data # None THEN user_data.username ELSE NoCookie

\* Flask-Login current_user.is_authenticated for the session of client c.
FlaskAuthenticated(c) ==
    cookie[c] # NoCookie /\ load_user(cookie[c]) # NoCookie

\* fastapi_shortener.py get_current_user: the cookie's username if the account
\* exists; a failed lookup is swallowed and answers None.
get_current_user(c, dbok) ==
    IF ~is_db_connected THEN NoCookie
    ELSE IF cookie[c] # NoCookie
         THEN IF dbok
              THEN IF find_one(users, "username", cookie[c]) # None
                   THEN cookie[c] ELSE NoCookie
              ELSE NoCookie
         ELSE NoCookie

\* fastapi_shortener.py get_current_user_required: the response raised when
\* there is no current user (503 or the login redirect), None to let it pass.
get_current_user_required(c, op, arg, dbok) ==
    IF get_current_user(c, dbok) = NoCookie
    THEN IF ~is_db_connected
         THEN DbErrorPage(op, arg)
         ELSE Response(op, arg, 303, "/login", "Please log in to access this page.",
                       NoCode,
                       IF cookie[c] # NoCookie THEN StoreTag(dbok) ELSE "ok")
    ELSE None

\* Flask-Login @login_required.
login_required(c, op, arg, dbok) ==
    IF cookie[c] # NoCookie /\ ~dbok
    THEN ServerError(op, arg)
    ELSE IF ~FlaskAuthenticated(c)
         THEN Response(op, arg, 302, "/login", "Please log in to access this page.",
                       NoCode, "ok")
         ELSE None

\* The username the gate hands to the handler.
GateUser(c) == IF variant = "Url_Shortner" THEN NoCookie ELSE cookie[c]

\* The response with which the gate of shorten turns the request away, or None.
ShortenGate(c, url, dbok) ==
    CASE variant = "Url_Shortner" -> None
      [] variant = "autentication" -> login_required(c, "shorten", url, dbok)
      [] OTHER -> get_current_user_required(c, "shorten", url, dbok)

\* A FastAPI handler body holds the event loop until it returns.
EventLoopFree(c) ==
    variant = "fastapi_shortener" => \A d \in Clients \ {c} : pc[d] = "idle"

\* ------------------------------------------------------------------- Init
Init ==
    /\ variant \in Variants
    /\ is_db_connected \in (IF variant = "fastapi_shortener" THEN BOOLEAN ELSE {TRUE})
    /\ links = <<>>
    /\ users = <<>>
    /\ cookie = [c \in Clients |-> NoCookie]
    /\ logged_in = [c \in Clients |-> None]
    /\ pc = [c \in Clients |-> "idle"]
    /\ req = [c \in Clients |-> IdleReq]
    /\ last = NoResponse
    /\ produced = {}

\* The handler of client c returns: its locals go, its response is sent.
Finish(c, response) ==
    /\ pc' = [pc EXCEPT ![c] = "idle"]
    /\ req' = [req EXCEPT ![c] = IdleReq]
    /\ last' = response

\* last is the response on its way to the client; no handler ever reads it.
\* A response is received before the next handler step is observed, so that
\* last always is the response of the step just taken.
NoneInTransit == last = NoResponse

Deliver ==
    /\ last # NoResponse
    /\ last' = NoResponse
    /\ UNCHANGED <<variant, is_db_connected, links, users, cookie, logged_in, pc, req, produced>>

\* --------------------------------------------------------------- shorten
\* The "URL parameter missing" answer of each application.
MissingUrl(url) ==
    CASE variant = "Url_Shortner" ->
           Response("shorten", url, 400, "", "URL parameter missing", NoCode, "ok")
      [] variant = "autentication" ->
           Response("shorten", url, 302, "/", "URL parameter missing", NoCode, "ok")
      [] OTHER ->
           Response("shorten", url, 303, "/", "URL parameter missing", NoCode, "ok")

\* Mutant of MissingTarget: the emptiness check is dropped.
MissingTarget_Dropped(url) == FALSE

\* "if not long_url"
MissingTarget(url) == url = ""

\* Mutant of CodeTaken: the existence check never sees a collision.
CodeTaken_Never(code) == FALSE

\* "while links_collection.find_one({'code': code})": the candidate collides.
CodeTaken(code) == find_one(links, "code", code) # None

\* shorten up to the first generate_code(): gate, form field, first draw.
ShortenBegin(c, url, first, dbok) ==
    /\ NoneInTransit
    /\ pc[c] = "idle"
    /\ EventLoopFree(c)
    /\ UNCHANGED <<variant, is_db_connected, links, users, cookie, logged_in, produced>>
    /\ IF ShortenGate(c, url, dbok) # None
       THEN Finish(c, ShortenGate(c, url, dbok))
       ELSE IF MissingTarget(url)
            THEN Finish(c, MissingUrl(url))
            ELSE /\ pc' = [pc EXCEPT ![c] = "loop"]
                 /\ req' = [req EXCEPT ![c] =
                        [IdleReq EXCEPT !.long_url = url, !.code = first,
                                        !.user = GateUser(c), !.attempts = 1]]
                 /\ UNCHANGED last

\* Mutant of ShortenLoop: "if" in place of "while", the redrawn code is
\* inserted unchecked.
ShortenLoop_IfNotWhile(c, next, dbok) ==
    /\ NoneInTransit
    /\ pc[c] = "loop"
    /\ UNCHANGED <<variant, is_db_connected, links, users, cookie, logged_in, produced>>
    /\ IF ~dbok
       THEN Finish(c, ServerError("shorten", req[c].long_url))
       ELSE /\ pc' = [pc EXCEPT ![c] = "insert"]
            /\ req' = [req EXCEPT ![c].code = IF CodeTaken(@) THEN next ELSE @]
            /\ UNCHANGED last

\* One evaluation of "while links_collection.find_one({'code': code})".
ShortenLoop(c, next, dbok) ==
    /\ NoneInTransit
    /\ pc[c] = "loop"
    /\ UNCHANGED <<variant, is_db_connected, links, users, cookie, logged_in, produced>>
    /\ IF ~dbok
       THEN Finish(c, ServerError("shorten", req[c].long_url))
       ELSE IF CodeTaken(req[c].code)
            THEN /\ req' = [req EXCEPT ![c].code = next,
                                       ![c].attempts =
                                           IF @ < MaxAttempts THEN @ + 1 ELSE @]
                 /\ UNCHANGED <<pc, last>>
            ELSE /\ pc' = [pc EXCEPT ![c] = "insert"]
                 /\ UNCHANGED <<req, last>>

\* The document shorten builds: created_by only in the account applications.
link_document(code, long_url, user) ==
    [code |-> code, long_url |-> long_url, created_by |-> user]

Created(url, code, draws) ==
    [(CASE variant = "Url_Shortner" ->
             Response("shorten", url, 200, "", "Short URL", code, "ok")
        [] variant = "autentication" ->
             Response("shorten", url, 302, "/", "Short URL created", code, "ok")
        [] OTHER ->
             Response("shorten", url, 303, "/", "Short URL created", code, "ok"))
     EXCEPT !.draws = draws]

\* links_collection.insert_one(link_document) and the answer.
ShortenInsert(c, dbok) ==
    /\ NoneInTransit
    /\ pc[c] = "insert"
    /\ UNCHANGED <<variant, is_db_connected, users, cookie, logged_in>>
    /\ IF ~dbok
       THEN /\ Finish(c, ServerError("shorten", req[c].long_url))
            /\ UNCHANGED <<links, produced>>
       ELSE /\ Len(links) < MaxLinks
            /\ links' = insert_one(links,
                   link_document(req[c].code, req[c].long_url, req[c].user))
            /\ produced' = produced \cup {req[c].code}
            /\ Finish(c, Created(req[c].long_url, req[c].code, req[c].attempts))

\* ------------------------------------------------------- redirect_to_url
\* Mutant of redirect_to_url: the query loses its filter, find_one({}).
redirect_to_url_NoFilter(code, dbok) ==
    IF variant = "fastapi_shortener" /\ ~is_db_connected
    THEN DbErrorPage("resolve", code)
    ELSE IF ~dbok
         THEN ServerError("resolve", code)
         ELSE IF links # <<>>
              THEN Response("resolve", code, 302, links[1].long_url, "", NoCode, "ok")
              ELSE Response("resolve", code, 404, "", "URL not found", NoCode, "ok")

redirect_to_url(code, dbok) ==
    IF variant = "fastapi_shortener" /\ ~is_db_connected
    THEN DbErrorPage("resolve", code)
    ELSE IF ~dbok
         THEN ServerError("resolve", code)
         ELSE LET mapping == find_one(links, "code", code)
              IN IF mapping # None
                 THEN Response("resolve", code, 302, mapping.long_url, "", NoCode, "ok")
                 ELSE Response("resolve", code, 404, "", "URL not found", NoCode, "ok")

\* Mutant of Resolve: find_one_and_delete, a link that works once.
Resolve_Consuming(c, code, dbok) ==
    /\ NoneInTransit
    /\ pc[c] = "idle"
    /\ EventLoopFree(c)
    /\ last' = redirect_to_url(code, dbok)
    /\ links' = IF last'.status = 302
                THEN LET k == Min({i \in DOMAIN links : links[i].code = code})
                     IN SubSeq(links, 1, k - 1) \o SubSeq(links, k + 1, Len(links))
                ELSE links
    /\ UNCHANGED <<variant, is_db_connected, users, cookie, logged_in, pc, req, produced>>

\* GET /<code>: one lookup, answered at once.
Resolve(c, code, dbok) ==
    /\ NoneInTransit
    /\ pc[c] = "idle"
    /\ EventLoopFree(c)
    /\ last' = redirect_to_url(code, dbok)
    /\ UNCHANGED <<variant, is_db_connected, links, users, cookie, logged_in, pc, req, produced>>

\* -------------------------------------------------------------- register
\* fastapi_shortener.py creates a unique index on users.username at startup;
\* autentication.py creates none.
UsernameIndexed == variant = "fastapi_shortener"

\* register up to the existence check of the username.
RegisterBegin(c, username, password, dbok) ==
    /\ NoneInTransit
    /\ variant # "Url_Shortner"
    /\ pc[c] = "idle"
    /\ EventLoopFree(c)
    /\ UNCHANGED <<variant, is_db_connected, links, users, cookie, logged_in, produced>>
    /\ IF variant = "fastapi_shortener" /\ ~is_db_connected
       THEN Finish(c, DbErrorPage("register", username))
       ELSE IF ~dbok
            THEN Finish(c, ServerError("register", username))
       ELSE IF variant = "autentication" /\ FlaskAuthenticated(c)
            THEN Finish(c, Response("register", username, 302, "/", "", NoCode, "ok"))
       ELSE IF find_one(users, "username", username) # None
            THEN Finish(c, Response("register", username,
                                    IF variant = "autentication" THEN 200 ELSE 303,
                                    IF variant = "autentication" THEN "" ELSE "/register",
                                    "Username already taken!", NoCode, "ok"))
            ELSE /\ pc' = [pc EXCEPT ![c] = "register_insert"]
                 /\ req' = [req EXCEPT ![c] =
                        [IdleReq EXCEPT !.username = username, !.password = password]]
                 /\ UNCHANGED last

\* users_collection.insert_one({"username": ..., "password": hashed_password}).
RegisterInsert(c, salt, dbok) ==
    /\ NoneInTransit
    /\ pc[c] = "register_insert"
    /\ UNCHANGED <<variant, is_db_connected, links, cookie, logged_in, produced>>
    /\ IF ~dbok \/ (UsernameIndexed /\ find_one(users, "username", req[c].username) # None)
       THEN /\ Finish(c, ServerError("register", req[c].username))
            /\ UNCHANGED users
       ELSE /\ Len(users) < MaxUsers
            /\ users' = insert_one(users,
                   [username |-> req[c].username,
                    password |-> generate_password_hash(req[c].password, salt)])
            /\ Finish(c, Response("register", req[c].username,
                                  IF variant = "autentication" THEN 302 ELSE 303,
                                  "/login", "Registration successful. Please log in.",
                                  NoCode, "ok"))

\* ----------------------------------------------------------------- login
\* user_data and check_password_hash(user_data['password'], password)
Credentials(username, password) ==
    LET user_data == find_one(users, "username", username)
    IN user_data # None /\ check_password_hash(user_data.password, password)

Login(c, username, password, dbok) ==
    /\ NoneInTransit
    /\ variant # "Url_Shortner"
    /\ pc[c] = "idle"
    /\ EventLoopFree(c)
    /\ UNCHANGED <<variant, is_db_connected, links, users, pc, req, produced>>
    /\ IF variant = "fastapi_shortener" /\ ~is_db_connected
       THEN last' = DbErrorPage("login", username) /\ UNCHANGED <<cookie, logged_in>>
       ELSE IF ~dbok
            THEN last' = ServerError("login", username) /\ UNCHANGED <<cookie, logged_in>>
       ELSE IF variant = "autentication" /\ FlaskAuthenticated(c)
            THEN /\ last' = Response("login", username, 302, "/", "", NoCode, "ok")
                 /\ UNCHANGED <<cookie, logged_in>>
       ELSE IF Credentials(username, password)
            THEN /\ cookie' = [cookie EXCEPT ![c] = username]
                 /\ logged_in' = [logged_in EXCEPT ![c] =
                        [username |-> username, password |-> password]]
                 /\ last' = Response("login", username,
                                     IF variant = "autentication" THEN 302 ELSE 303,
                                     "/", "Logged in successfully!", NoCode, "ok")
            ELSE /\ last' = Response("login", username,
                                     IF variant = "autentication" THEN 200 ELSE 303,
                                     IF variant = "autentication" THEN "" ELSE "/login",
                                     "Invalid username or password", NoCode, "ok")
                 /\ UNCHANGED <<cookie, logged_in>>

\* ---------------------------------------------------------------- logout
Logout(c, dbok) ==
    /\ NoneInTransit
    /\ variant # "Url_Shortner"
    /\ pc[c] = "idle"
    /\ EventLoopFree(c)
    /\ UNCHANGED <<variant, is_db_connected, links, users, pc, req, produced>>
    /\ IF variant = "autentication" /\ login_required(c, "logout", "", dbok) # None
       THEN last' = login_required(c, "logout", "", dbok) /\ UNCHANGED <<cookie, logged_in>>
       ELSE /\ cookie' = [cookie EXCEPT ![c] = NoCookie]
            /\ logged_in' = [logged_in EXCEPT ![c] = None]
            /\ last' = Response("logout", "",
                                IF variant = "autentication" THEN 302 ELSE 303,
                                "/", "", NoCode, "ok")

\* The FastAPI application reads the username from the plain cookie
\* "username_session": the request carries whatever the client puts there.
\* (The Flask session cookie is signed with SECRET_KEY.)
ClientSetsCookie(c, value) ==
    /\ NoneInTransit
    /\ variant = "fastapi_shortener"
    /\ pc[c] = "idle"
    /\ cookie[c] # value
    /\ cookie' = [cookie EXCEPT ![c] = value]
    /\ logged_in' = [logged_in EXCEPT ![c] = None]
    /\ UNCHANGED <<variant, is_db_connected, links, users, pc, req, last, produced>>

\* ------------------------------------------------------------------ Next
\* One step of a request of client c.
ClientStep(c) ==
    \/ \E url \in Urls, first \in Codes, dbok \in BOOLEAN :
           ShortenBegin(c, url, first, dbok)
    \/ \E next \in Codes, dbok \in BOOLEAN : ShortenLoop(c, next, dbok)
    \/ \E dbok \in BOOLEAN : ShortenInsert(c, dbok)
    \/ \E code \in Codes, dbok \in BOOLEAN : Resolve(c, code, dbok)
    \/ \E username \in Usernames, password \in Passwords, dbok \in BOOLEAN :
           RegisterBegin(c, username, password, dbok)
    \/ \E salt \in Salts, dbok \in BOOLEAN : RegisterInsert(c, salt, dbok)
    \/ \E username \in Usernames, password \in Passwords, dbok \in BOOLEAN :
           Login(c, username, password, dbok)
    \/ \E dbok \in BOOLEAN : Logout(c, dbok)
    \/ \E value \in Usernames \cup {NoCookie} : ClientSetsCookie(c, value)

\* Requests are served concurrently.
Next ==
    \/ Deliver
    \/ \E c \in Clients : ClientStep(c)

Spec == Init /\ [][Next]_vars

\* Requests are served one at a time: each runs to completion before the next
\* starts.
Alone(c) == \A d \in Clients \ {c} : pc[d] = "idle"

SeqNext ==
    \/ Deliver
    \/ \E c \in Clients, url \in Urls, first \in Codes, dbok \in BOOLEAN :
           Alone(c) /\ ShortenBegin(c, url, first, dbok)
    \/ \E c \in Clients, next \in Codes, dbok \in BOOLEAN :
           Alone(c) /\ ShortenLoop(c, next, dbok)
    \/ \E c \in Clients, dbok \in BOOLEAN :
           Alone(c) /\ ShortenInsert(c, dbok)
    \/ \E c \in Clients, code \in Codes, dbok \in BOOLEAN :
           Alone(c) /\ Resolve(c, code, dbok)
    \/ \E c \in Clients, username \in Usernames, password \in Passwords,
           dbok \in BOOLEAN :
           Alone(c) /\ RegisterBegin(c, username, password, dbok)
    \/ \E c \in Clients, salt \in Salts, dbok \in BOOLEAN :
           Alone(c) /\ RegisterInsert(c, salt, dbok)
    \/ \E c \in Clients, username \in Usernames, password \in Passwords,
           dbok \in BOOLEAN :
           Alone(c) /\ Login(c, username, password, dbok)
    \/ \E c \in Clients, dbok \in BOOLEAN :
           Alone(c) /\ Logout(c, dbok)
    \/ \E c \in Clients, value \in Usernames \cup {NoCookie} :
           Alone(c) /\ ClientSetsCookie(c, value)

SeqSpec == Init /\ [][SeqNext]_vars

\* No handler thread is starved: a handler that can again and again take its
\* next step takes it (its step is disabled only while a response of another
\* request is on its way), and every response is received.
Fairness ==
    /\ WF_vars(Deliver)
    /\ \A c \in Clients :
           /\ SF_vars(\E next \in Codes, dbok \in BOOLEAN : ShortenLoop(c, next, dbok))
           /\ SF_vars(\E dbok \in BOOLEAN : ShortenInsert(c, dbok))
           /\ SF_vars(\E salt \in Salts, dbok \in BOOLEAN : RegisterInsert(c, salt, dbok))

FairSpec == Init /\ [][Next]_vars /\ Fairness

\* ================================================================ claims
\* The codes of the stored mappings, read off the collection directly.
StoredCodes == {links[i].code : i \in DOMAIN links}

IsCreated(r) == r.op = "shorten" /\ r.code # NoCode

\* A request turned away before the handler body: by the access gate, by the
\* startup check of the connection, or by a store failure.
TurnedAway(r) ==
    \/ r.flash = "Please log in to access this page."
    \/ r.status \in {500, 503}

\* C1: N concurrent shorten calls store N mappings with N distinct codes: an
\* insert never adds a code that a stored mapping already has.
C1_ConcurrentCreatesDistinct ==
    [][Len(links') > Len(links) =>
          \A i \in DOMAIN links : links[i].code # links'[Len(links')].code]_vars

\* C2: with requests served one at a time, no two stored mappings share a code.
C2_UniqueCodes ==
    \A i, j \in DOMAIN links : i # j => links[i].code # links[j].code

\* Two mappings are stored, the second by a shorten whose first draw collided.
C2_Witness ==
    /\ Len(links) = 2
    /\ IsCreated(last)
    /\ last.draws >= 2

\* C3: right after a successful shorten of a non-empty URL, redirect_to_url of
\* the returned code redirects to exactly that URL.
C3_CreateThenResolve ==
    IsCreated(last) =>
        /\ last.arg # ""
        /\ redirect_to_url(last.code, TRUE).status = 302
        /\ redirect_to_url(last.code, TRUE).location = last.arg

\* C4: redirect_to_url of a code no shorten has produced never redirects, and
\* answers 404 whenever the store answered the lookup.
C4_UnknownCodeNotFound ==
    (last.op = "resolve" /\ last.arg \notin produced) =>
        /\ last.status # 302
        /\ last.location = ""
        /\ last.store = "ok" => last.status = 404

\* redirect_to_url answered 404 for a code never produced while another code
\* is stored.
C4_Witness ==
    /\ last.op = "resolve"
    /\ last.arg \notin produced
    /\ last.status = 404
    /\ produced # {}
    /\ links # <<>>

C6_StorageFailureSurfaced ==
    (/\ last.op = "shorten"
     /\ last.store = "failed"
     /\ \A c \in Clients : \E i \in DOMAIN users : users[i].username = cookie[c]) =>
        /\ last.status \in {500, 503}
        /\ last.location # "/login"

\* C7: every shorten leaves its collision-retry loop.
C7_CreateTerminates ==
    \A c \in Clients : (pc[c] = "loop") ~> (pc[c] # "loop")

\* C8: redirect_to_url changes nothing but the answer it gives, and a step that
\* leaves the mappings alone leaves the answer for every code what it was.
C8_ResolvePure ==
    [][/\ (last' # last /\ last'.op = "resolve") =>
            /\ links' = links
            /\ users' = users
            /\ cookie' = cookie
            /\ produced' = produced
       /\ links' = links =>
            \A code \in Codes :
                /\ redirect_to_url(code, TRUE)' = redirect_to_url(code, TRUE)
                /\ (\E i \in DOMAIN links : links[i].code = code) =>
                       redirect_to_url(code, TRUE).status = 302]_vars

\* redirect_to_url has redirected to a stored URL.
C8_Witness ==
    /\ last.op = "resolve"
    /\ last.status = 302
    /\ \E i \in DOMAIN links :
           links[i].code = last.arg /\ links[i].long_url = last.location

\* C9: a candidate found in the store is rejected and another one drawn, the
\* first candidate not found is the one inserted and returned, and the stored
\* mappings stay as they were while the loop runs.
C9_RetryUntilFree ==
    [][\A c \in Clients :
         /\ (pc[c] = "loop" /\ (pc'[c] # "loop" \/ req'[c] # req[c])) =>
               /\ links' = links
               /\ \/ last' # last /\ last'.store = "failed" /\ pc'[c] = "idle"
                  \/ /\ req[c].code \in StoredCodes
                     /\ pc'[c] = "loop"
                     /\ req'[c].code \in Codes
                     /\ req'[c].long_url = req[c].long_url
                  \/ /\ req[c].code \notin StoredCodes
                     /\ pc'[c] = "insert"
                     /\ req'[c] = req[c]
         /\ (pc[c] = "insert" /\ pc'[c] # "insert") =>
               \/ last'.store = "failed" /\ links' = links
               \/ /\ Len(links') = Len(links) + 1
                  /\ SubSeq(links', 1, Len(links)) = links
                  /\ links'[Len(links')].code = req[c].code
                  /\ links'[Len(links')].long_url = req[c].long_url
                  /\ IsCreated(last')
                  /\ last'.code = req[c].code]_vars

\* With AAAAA stored, a shorten that drew three candidates has stored BBBBB
\* behind it.
C9_Witness ==
    /\ IsCreated(last)
    /\ last.code = "BBBBB"
    /\ last.draws = 3
    /\ Len(links) = 2
    /\ links[1].code = "AAAAA"
    /\ links[2].code = "BBBBB"

\* C10: no step changes or removes a stored mapping; the collection grows by
\* one document exactly when a shorten answers with a new short code.
C10_MappingsImmutable ==
    [][/\ Len(links') >= Len(links)
       /\ SubSeq(links', 1, Len(links)) = links
       /\ Len(links') <= Len(links) + 1
       /\ Len(links') = Len(links) + 1 <=>
              (last' # last /\ IsCreated(last'))
       /\ IsCreated(last') /\ last' # last =>
              /\ links'[Len(links')].code = last'.code
              /\ links'[Len(links')].long_url = last'.arg]_vars

\* A mapping created by alice is still stored, unchanged, after she logged out.
C10_Witness ==
    /\ last.op = "logout"
    /\ last.location = "/"
    /\ links # <<>>
    /\ links[1].created_by = "alice"
    /\ \A c \in Clients : cookie[c] = NoCookie

\* The shorten of client c stores its document in this step.
Stores(c) ==
    /\ pc[c] = "insert"
    /\ pc'[c] = "idle"
    /\ Len(links') = Len(links) + 1

\* C11: in the account applications a mapping is stored only by a request of a
\* client that got its session by a login with the password of a registered
\* account, and created_by is that account; a request the gate turns away
\* stores nothing.
C11_CreateOnlyThroughGate ==
    [][variant # "Url_Shortner" =>
          /\ Len(links') > Len(links) =>
                \E c \in Clients :
                    /\ Stores(c)
                    /\ logged_in[c] # None
                    /\ \E i \in DOMAIN users :
                           /\ users[i].username = logged_in[c].username
                           /\ check_password_hash(users[i].password,
                                                  logged_in[c].password)
                    /\ links'[Len(links')].created_by = logged_in[c].username
          /\ (/\ last' # last
              /\ last'.op = "shorten"
              /\ last'.flash = "Please log in to access this page.") =>
                links' = links]_vars

\* C12: usernames are unique, concurrent registrations included: no step leaves
\* two accounts with one username, and no step changes or removes an account
\* (so a registration for a taken username leaves its password hash alone).
C12_UsernamesUnique ==
    [][/\ \A i, j \in DOMAIN users' :
              i # j => users'[i].username # users'[j].username
       /\ Len(users') >= Len(users)
       /\ \A i \in DOMAIN users : users'[i] = users[i]]_vars

====
